---- MODULE Spec2Model ----
(***************************************************************************)
(* A model of DatasetPreparator (src/dataset_preparator.py): the dataset   *)
(* directory under base_dir and the operations that reorganise it.         *)
(*                                                                         *)
(* A directory is the sequence of its components below base_dir (Root is   *)
(* the empty sequence).  A file path is a record [dir, name] where name is *)
(* the pair <<stem, suffix>>.  A file's content is a record [text, docs]:  *)
(* text is the character sequence of a text file, docs the sequence of     *)
(* YAML documents of a manifest.                                           *)
(***************************************************************************)
EXTENDS Naturals, Sequences, FiniteSets

VARIABLES
    base_dir,   \* self.base_dir, the absolute path as a sequence of components
    dirs,       \* the directories that exist below base_dir (Root included)
    files,      \* the files that exist: path |-> content
    op,         \* the operation that is running, or "idle"
    last,       \* the operation that returned last, or "none"
    tasks,      \* the units of work of the running/last operation: path |-> position
    walk,       \* the directories os.walk still has to hand to the loop body
    pre,        \* [files, dirs] as they were when the running/last operation began
    arg         \* the argument of the running/last operation

vars == <<base_dir, dirs, files, op, last, tasks, walk, pre, arg>>

----------------------------------------------------------------------------
(* Paths and contents *)

Root == << >>

NoArg == [kind |-> "none"]

P(d, n) == [dir |-> d, name |-> n]

Suffix(p) == p.name[2]

Stem(p) == p.name[1]

Text(t) == [text |-> t, docs |-> << >>]

Exists(fs, p) == p \in DOMAIN fs

Remove(fs, p) == [q \in DOMAIN fs \ {p} |-> fs[q]]

NoTasks == [p \in {} |-> "done"]

Snapshot == [files |-> files, dirs |-> dirs]

\* a slip: the call returns without waiting for its tasks
Settled_NoWait(ts) == TRUE

Settled(ts) == \A p \in DOMAIN ts : ts[p] \in {"done", "failed"}

----------------------------------------------------------------------------
(* shutil.move of a file onto a file path: os.rename replaces an existing  *)
(* destination, is a no-op when source and destination are the same file,  *)
(* and raises when the source is gone.                                     *)

MoveRaises(fs, src, dst) == ~Exists(fs, src)

ShutilMove(fs, src, dst) ==
    [q \in (DOMAIN fs \ {src}) \cup {dst} |-> IF q = dst THEN fs[src] ELSE fs[q]]

----------------------------------------------------------------------------
(* flatten_all_files and _move_file_safely *)

FlattenDst(src) == P(Root, src.name)

\* a slip: the unlink is decided on the suffix alone
MustUnlink_SuffixOnly(fs, dst) == Suffix(dst) = ".jpg"

\* a slip: every existing destination is unlinked, whatever its suffix
MustUnlink_AnySuffix(fs, dst) == Exists(fs, dst)

MustUnlink(fs, dst) == Exists(fs, dst) /\ Suffix(dst) = ".jpg"

StartFlatten ==
    /\ op = "idle"
    /\ op' = "flatten"
    /\ pre' = Snapshot
    /\ arg' = NoArg
    /\ tasks' = [p \in DOMAIN files |-> "check"]
    /\ UNCHANGED <<base_dir, dirs, files, last, walk>>

MoveCheck(src) ==
    /\ op = "flatten"
    /\ src \in DOMAIN tasks
    /\ tasks[src] = "check"
    /\ tasks' = [tasks EXCEPT ![src] =
                    IF MustUnlink(files, FlattenDst(src)) THEN "unlink" ELSE "move"]
    /\ UNCHANGED <<base_dir, dirs, files, op, last, walk, pre, arg>>

MoveUnlink(src) ==
    /\ op = "flatten"
    /\ src \in DOMAIN tasks
    /\ tasks[src] = "unlink"
    /\ IF Exists(files, FlattenDst(src))
         THEN /\ files' = Remove(files, FlattenDst(src))
              /\ tasks' = [tasks EXCEPT ![src] = "move"]
         ELSE /\ files' = files
              /\ tasks' = [tasks EXCEPT ![src] = "failed"]
    /\ UNCHANGED <<base_dir, dirs, op, last, walk, pre, arg>>

MoveMove(src) ==
    /\ op = "flatten"
    /\ src \in DOMAIN tasks
    /\ tasks[src] = "move"
    /\ IF MoveRaises(files, src, FlattenDst(src))
         THEN /\ files' = files
              /\ tasks' = [tasks EXCEPT ![src] = "failed"]
         ELSE /\ files' = ShutilMove(files, src, FlattenDst(src))
              /\ tasks' = [tasks EXCEPT ![src] = "done"]
    /\ UNCHANGED <<base_dir, dirs, op, last, walk, pre, arg>>

FinishFlatten ==
    /\ op = "flatten"
    /\ Settled(tasks)
    /\ op' = "idle"
    /\ last' = "flatten"
    /\ UNCHANGED <<base_dir, dirs, files, tasks, walk, pre, arg>>

----------------------------------------------------------------------------
(* The trees flatten_all_files is run on *)

MaxFlatFiles == 3

FlatDirs == {Root, <<"d1">>, <<"d2">>, <<"d1", "d3">>}

FlatNames == {<<"a", ".jpg">>, <<"a", ".txt">>}

FlatPaths == {P(d, n) : d \in FlatDirs, n \in FlatNames}

\* every file's content tells the directory it started in
OriginText(d) == IF d = Root THEN <<"r">> ELSE <<d[Len(d)]>>

InitFlatten ==
    /\ base_dir = <<"data", "ds">>
    /\ dirs = FlatDirs
    /\ \E S \in SUBSET FlatPaths :
          /\ Cardinality(S) <= MaxFlatFiles
          /\ files = [p \in S |-> Text(OriginText(p.dir))]
    /\ op = "idle"
    /\ last = "none"
    /\ tasks = NoTasks
    /\ walk = << >>
    /\ pre = Snapshot
    /\ arg = NoArg

NextFlatten ==
    \/ StartFlatten
    \/ \E src \in FlatPaths : MoveCheck(src)
    \/ \E src \in FlatPaths : MoveUnlink(src)
    \/ \E src \in FlatPaths : MoveMove(src)
    \/ FinishFlatten

SpecFlatten == InitFlatten /\ [][NextFlatten]_vars

----------------------------------------------------------------------------
(* Claims about flatten_all_files *)

Returned(o) == op = "idle" /\ last = o

ImageSuffixes == {".jpg", ".png"}

AJpg == <<"a", ".jpg">>

\* C1: when flatten_all_files returns, every file name that existed at any
\* depth below the root before the call exists as a file directly under the
\* root, and no file remains in a subdirectory.
C1_FlattenKeepsEveryName ==
    Returned("flatten") =>
        /\ \A p \in DOMAIN pre.files : Exists(files, P(Root, p.name))
        /\ \A q \in DOMAIN files : q.dir = Root

\* the scenario of C2: exactly two a.jpg, both in subdirectories
TwoJpgInSubdirs(fs) ==
    /\ Cardinality({p \in DOMAIN fs : p.name = AJpg}) = 2
    /\ ~Exists(fs, P(Root, AJpg))

\* C2: with two a.jpg in two different subdirectories and none under the
\* root, no task of the flatten fails under any interleaving of the
\* exists-check, unlink and move steps, and flatten_all_files returns with
\* a.jpg directly under the root, holding the content of one of the two.
C2_TwoJpgOneSurvives ==
    (TwoJpgInSubdirs(pre.files) /\ (op = "flatten" \/ Returned("flatten"))) =>
        /\ \A p \in DOMAIN tasks : tasks[p] # "failed"
        /\ Returned("flatten") =>
              /\ Exists(files, P(Root, AJpg))
              /\ \E p \in DOMAIN pre.files :
                    p.name = AJpg /\ files[P(Root, AJpg)] = pre.files[p]

\* C2's case: the flatten of two a.jpg from two subdirectories has returned and
\* both sources are gone
C2_Witness ==
    /\ Returned("flatten")
    /\ TwoJpgInSubdirs(pre.files)
    /\ Exists(files, P(Root, AJpg))
    /\ \A p \in DOMAIN pre.files : p.name = AJpg => ~Exists(files, p)

\* C3: when a non-image file is moved onto an existing root file of the same
\* name, the root file keeps its content and the incoming file stays at its
\* source path.
C3_NonImageCollisionPreserved ==
    Returned("flatten") =>
        \A p \in DOMAIN pre.files :
            (/\ p.dir # Root
             /\ Suffix(p) \notin ImageSuffixes
             /\ Exists(pre.files, P(Root, p.name))) =>
                /\ Exists(files, P(Root, p.name))
                /\ files[P(Root, p.name)] = pre.files[P(Root, p.name)]
                /\ Exists(files, p)

----------------------------------------------------------------------------
(* split_dataset, _create_split_dirs and _assign_to_split_folder *)

SplitSuffixes == {".jpg", ".png", ".txt"}

SplitLeaves == {<<c, s>> : c \in {"images", "labels"}, s \in {"train", "val"}}

\* mkdir(parents=True, exist_ok=True) of the four directories
CreateSplitDirs(ds) == ds \cup {<<"images">>, <<"labels">>} \cup SplitLeaves

\* a slip: only .jpg counts as an image
Category_JpgOnly(suffix) == IF suffix = ".jpg" THEN "images" ELSE "labels"

Category(suffix) == IF suffix \in {".jpg", ".png"} THEN "images" ELSE "labels"

\* random() is drawn in tenths: 0 stands for [0, 0.1), ..., 9 for [0.9, 1)
Draws == 0 .. 9

Ratios == {2, 8}

SplitOf(draw, train_ratio) == IF draw < train_ratio THEN "train" ELSE "val"

SplitDst(src, draw, train_ratio) ==
    P(<<Category(Suffix(src)), SplitOf(draw, train_ratio)>>, src.name)

\* a slip: rglob instead of iterdir, the files of the split directories are
\* dispatched again
StartSplit_Rglob(train_ratio) ==
    /\ op = "idle"
    /\ op' = "split"
    /\ pre' = Snapshot
    /\ arg' = [kind |-> "ratio", ratio |-> train_ratio]
    /\ dirs' = CreateSplitDirs(dirs)
    /\ tasks' = [p \in {q \in DOMAIN files : Suffix(q) \in SplitSuffixes} |-> "move"]
    /\ UNCHANGED <<base_dir, files, last, walk>>

StartSplit(train_ratio) ==
    /\ op = "idle"
    /\ op' = "split"
    /\ pre' = Snapshot
    /\ arg' = [kind |-> "ratio", ratio |-> train_ratio]
    /\ dirs' = CreateSplitDirs(dirs)
    /\ tasks' = [p \in {q \in DOMAIN files :
                           q.dir = Root /\ Suffix(q) \in SplitSuffixes} |-> "move"]
    /\ UNCHANGED <<base_dir, files, last, walk>>

AssignToSplitFolder(src, draw) ==
    /\ op = "split"
    /\ src \in DOMAIN tasks
    /\ tasks[src] = "move"
    /\ LET dest == SplitDst(src, draw, arg.ratio) IN
         IF MoveRaises(files, src, dest)
           THEN /\ files' = files
                /\ tasks' = [tasks EXCEPT ![src] = "failed"]
           ELSE /\ files' = ShutilMove(files, src, dest)
                /\ tasks' = [tasks EXCEPT ![src] = "done"]
    /\ UNCHANGED <<base_dir, dirs, op, last, walk, pre, arg>>

FinishSplit ==
    /\ op = "split"
    /\ Settled(tasks)
    /\ op' = "idle"
    /\ last' = "split"
    /\ UNCHANGED <<base_dir, dirs, files, tasks, walk, pre, arg>>

----------------------------------------------------------------------------
(* The directories split_dataset is run on: files directly under the root, *)
(* and possibly files an earlier split left in the split directories       *)

MaxSplitFiles == 3

SplitNames ==
    {<<"a", ".jpg">>, <<"a", ".png">>, <<"a", ".txt">>, <<"b", ".jpg">>,
     <<"b", ".txt">>, <<"a", ".gif">>, <<"a", ".JPG">>}

StalePaths ==
    {P(<<"images", "val">>, <<"a", ".jpg">>), P(<<"labels", "train">>, <<"a", ".txt">>)}

SplitPaths == {P(Root, n) : n \in SplitNames}

InitSplit ==
    /\ base_dir = <<"data", "ds">>
    /\ \E S \in SUBSET SplitPaths, O \in SUBSET StalePaths :
          /\ Cardinality(S) <= MaxSplitFiles
          /\ files = [p \in S \cup O |->
                        IF p \in S THEN Text(<<"n">>) ELSE Text(<<"o">>)]
          /\ dirs = IF O = {} THEN {Root} ELSE CreateSplitDirs({Root})
    /\ op = "idle"
    /\ last = "none"
    /\ tasks = NoTasks
    /\ walk = << >>
    /\ pre = Snapshot
    /\ arg = NoArg

NextSplit ==
    \/ \E r \in Ratios : StartSplit(r)
    \/ \E src \in SplitPaths, draw \in Draws : AssignToSplitFolder(src, draw)
    \/ FinishSplit

SpecSplit == InitSplit /\ [][NextSplit]_vars

----------------------------------------------------------------------------
(* Claims about split_dataset *)

\* the recognised files that were directly under the root when the call began
SplitInputs == {p \in DOMAIN pre.files : p.dir = Root /\ Suffix(p) \in SplitSuffixes}

\* the split directories that hold the file that was at p
LandedIn(p) ==
    {d \in SplitLeaves : Exists(files, P(d, p.name)) /\ files[P(d, p.name)] = pre.files[p]}

\* C4: after split_dataset every file that was directly under the root with
\* suffix .jpg, .png or .txt is in exactly one of the four split directories,
\* is no longer directly under the root, and is under images for .jpg/.png
\* and under labels for .txt.
C4_EachFileInOneSplitDir ==
    Returned("split") =>
        \A p \in SplitInputs :
            /\ ~Exists(files, p)
            /\ Cardinality(LandedIn(p)) = 1
            /\ \A d \in LandedIn(p) :
                  d[1] = (IF Suffix(p) = ".txt" THEN "labels" ELSE "images")

\* C4's case: an image and a label were split, the image onto the file an
\* earlier split had left in images/val, and an unrecognised file stayed
\* under the root
C4_Witness ==
    /\ Returned("split")
    /\ {P(Root, AJpg), P(Root, <<"a", ".txt">>)} \subseteq SplitInputs
    /\ Exists(pre.files, P(<<"images", "val">>, AJpg))
    /\ LandedIn(P(Root, AJpg)) = {<<"images", "val">>}
    /\ Exists(files, P(Root, <<"a", ".gif">>))

\* C5: after split_dataset an image and a label that share a stem are in the
\* same split, train or val.
C5_PairsShareSplit ==
    Returned("split") =>
        \A p, q \in SplitInputs :
            (Stem(p) = Stem(q) /\ Suffix(p) \in ImageSuffixes /\ Suffix(q) = ".txt") =>
                \A dp \in LandedIn(p), dq \in LandedIn(q) : dp[2] = dq[2]

----------------------------------------------------------------------------
(* update_all_labels and _reset_label_classes.  A label file's text is its *)
(* sequence of characters; "\n" ends a line, " " and "\t" are the other    *)
(* whitespace.                                                             *)

Whitespace == {" ", "\t", "\n"}

IsWs(c) == c \in Whitespace

\* file.readlines(): the lines, each with its line ending
RECURSIVE ReadLines(_)
ReadLines(t) ==
    IF t = << >> THEN << >>
    ELSE IF \E i \in 1 .. Len(t) : t[i] = "\n"
      THEN LET i == CHOOSE k \in 1 .. Len(t) :
                       t[k] = "\n" /\ \A j \in 1 .. (k - 1) : t[j] # "\n"
           IN <<SubSeq(t, 1, i)>> \o ReadLines(SubSeq(t, i + 1, Len(t)))
      ELSE <<t>>

\* str.strip()
RECURSIVE Strip(_)
Strip(l) ==
    IF l = << >> THEN << >>
    ELSE IF IsWs(l[1]) THEN Strip(Tail(l))
    ELSE IF IsWs(l[Len(l)]) THEN Strip(SubSeq(l, 1, Len(l) - 1))
    ELSE l

\* str.split(): the maximal runs of non-whitespace characters
RECURSIVE Split(_)
Split(l) ==
    IF l = << >> THEN << >>
    ELSE IF IsWs(l[1]) THEN Split(Tail(l))
    ELSE LET n == CHOOSE k \in 1 .. Len(l) :
                     /\ \A j \in 1 .. k : ~IsWs(l[j])
                     /\ (k = Len(l) \/ IsWs(l[k + 1]))
         IN <<SubSeq(l, 1, n)>> \o Split(SubSeq(l, n + 1, Len(l)))

\* " ".join(parts)
RECURSIVE Join(_)
Join(parts) ==
    IF parts = << >> THEN << >>
    ELSE IF Len(parts) = 1 THEN parts[1]
    ELSE parts[1] \o <<" ">> \o Join(Tail(parts))

\* a slip: the class index is put in front of the tokens, not over the first
SetClass_Insert(parts) == <<<<"0">>>> \o parts

\* parts[0] = '0'
SetClass(parts) == [parts EXCEPT ![1] = <<"0">>]

\* the loop over the lines: what is written back
RECURSIVE Updated(_)
Updated(lines) ==
    IF lines = << >> THEN << >>
    ELSE LET parts == Split(Strip(Head(lines))) IN
         (IF parts # << >> THEN Join(SetClass(parts)) \o <<"\n">> ELSE << >>)
            \o Updated(Tail(lines))

\* seek(0), writelines(updated), truncate()
ResetText(t) == Updated(ReadLines(t))

StartLabels ==
    /\ op = "idle"
    /\ op' = "labels"
    /\ pre' = Snapshot
    /\ arg' = NoArg
    /\ tasks' = [p \in {q \in DOMAIN files : Suffix(q) = ".txt"} |-> "todo"]
    /\ UNCHANGED <<base_dir, dirs, files, last, walk>>

ResetLabelClasses(file_path) ==
    /\ op = "labels"
    /\ file_path \in DOMAIN tasks
    /\ tasks[file_path] = "todo"
    /\ IF Exists(files, file_path)
         THEN /\ files' = [files EXCEPT ![file_path].text = ResetText(@)]
              /\ tasks' = [tasks EXCEPT ![file_path] = "done"]
         ELSE /\ files' = files
              /\ tasks' = [tasks EXCEPT ![file_path] = "failed"]
    /\ UNCHANGED <<base_dir, dirs, op, last, walk, pre, arg>>

FinishLabels ==
    /\ op = "labels"
    /\ Settled(tasks)
    /\ op' = "idle"
    /\ last' = "labels"
    /\ UNCHANGED <<base_dir, dirs, files, tasks, walk, pre, arg>>

----------------------------------------------------------------------------
(* The label files update_all_labels is run on *)

MaxLen == 5

Chars == {" ", "\t", "\n", "0", "7"}

RECURSIVE Texts(_)
Texts(n) ==
    IF n = 0 THEN {<< >>}
    ELSE LET shorter == Texts(n - 1) IN
         shorter \cup {Append(t, c) : t \in {u \in shorter : Len(u) = n - 1}, c \in Chars}

ATxt == <<"a", ".txt">>

BTxt == P(<<"d1", "d3">>, <<"b", ".txt">>)

LabelPaths == {P(Root, ATxt), P(<<"d1">>, ATxt), BTxt}

InitLabels ==
    /\ base_dir = <<"data", "ds">>
    /\ dirs = {Root, <<"d1">>, <<"d1", "d3">>}
    /\ \E d \in {Root, <<"d1">>}, t \in Texts(MaxLen), B \in SUBSET {BTxt} :
          files = [p \in {P(d, ATxt), P(Root, AJpg)} \cup B |->
                      IF p = P(d, ATxt) THEN Text(t)
                      ELSE Text(<<"3", "\t", "1", "\n", "\n", " ", "4", " ", " ", "2">>)]
    /\ op = "idle"
    /\ last = "none"
    /\ tasks = NoTasks
    /\ walk = << >>
    /\ pre = Snapshot
    /\ arg = NoArg

NextLabels ==
    \/ StartLabels
    \/ \E p \in LabelPaths : ResetLabelClasses(p)
    \/ FinishLabels

SpecLabels == InitLabels /\ [][NextLabels]_vars

----------------------------------------------------------------------------
(* Claims about update_all_labels *)

IsBlank(line) == Split(line) = << >>

LabelInputs == {p \in DOMAIN pre.files : Suffix(p) = ".txt"}

\* C6: after update_all_labels, for every .txt file at any depth: there is
\* one output line per non-blank input line, in the same order; the first
\* token of each output line is "0" and its other tokens are those of the
\* input line, in the same order and number; no output line is blank.
C6_LinesNormalised ==
    Returned("labels") =>
        \A p \in LabelInputs :
            LET inp == SelectSeq(ReadLines(pre.files[p].text), LAMBDA l : ~IsBlank(l))
                out == ReadLines(files[p].text)
            IN /\ Len(out) = Len(inp)
               /\ \A i \in 1 .. Len(out) :
                     /\ ~IsBlank(out[i])
                     /\ Head(Split(out[i])) = <<"0">>
                     /\ Tail(Split(out[i])) = Tail(Split(inp[i]))

\* C6's case: a file in a subdirectory with a blank line between two lines,
\* one of them of two tokens separated by a tab, has been rewritten
C6_Witness ==
    /\ Returned("labels")
    /\ Exists(pre.files, BTxt)
    /\ files[BTxt].text # pre.files[BTxt].text
    /\ Len(ReadLines(pre.files[BTxt].text)) = 3
    /\ Len(ReadLines(files[BTxt].text)) = 2

\* C7: normalisation is idempotent: once update_all_labels has returned, a
\* further _reset_label_classes of any label file leaves its content (and
\* every other file) identical.
C7_ResetIdempotent ==
    [][(/\ last = "labels"
        /\ \E p \in DOMAIN tasks : tasks[p] = "todo" /\ tasks'[p] = "done")
          => files' = files]_vars

\* C7's case: a second pass has rewritten an already normalised file of two
\* lines, one of two tokens
C7_Witness ==
    /\ last = "labels"
    /\ op = "labels"
    /\ Exists(files, BTxt)
    /\ tasks[BTxt] = "done"
    /\ files[BTxt].text = <<"0", " ", "1", "\n", "0", " ", "2", "\n">>

----------------------------------------------------------------------------
(* remove_unwanted_files *)

Allowed == {".jpg", ".png", ".txt"}

\* a slip: the suffix is compared as it is written
Lower_AsWritten(suffix) == suffix

\* str.lower() on the suffixes of the model
Lower(suffix) ==
    CASE suffix = ".JPG" -> ".jpg"
      [] suffix = ".Png" -> ".png"
      [] suffix = ".TXT" -> ".txt"
      [] suffix = ".GIF" -> ".gif"
      [] OTHER -> suffix

\* a slip: iterdir instead of rglob, only the root's own entries are swept
Swept_RootOnly(fs) == {p \in DOMAIN fs : p.dir = Root}

\* base_dir.rglob("*"): every entry at any depth (the directories among them
\* fail is_file() and are skipped); the order is the file system's
Swept(fs) == DOMAIN fs

StartUnwanted ==
    /\ op = "idle"
    /\ op' = "unwanted"
    /\ pre' = Snapshot
    /\ arg' = NoArg
    /\ tasks' = [p \in Swept(files) |-> "todo"]
    /\ UNCHANGED <<base_dir, dirs, files, last, walk>>

UnwantedStep(f) ==
    /\ op = "unwanted"
    /\ f \in DOMAIN tasks
    /\ tasks[f] = "todo"
    /\ files' = IF Exists(files, f) /\ Lower(Suffix(f)) \notin Allowed
                  THEN Remove(files, f)
                  ELSE files
    /\ tasks' = [tasks EXCEPT ![f] = "done"]
    /\ UNCHANGED <<base_dir, dirs, op, last, walk, pre, arg>>

FinishUnwanted ==
    /\ op = "unwanted"
    /\ Settled(tasks)
    /\ op' = "idle"
    /\ last' = "unwanted"
    /\ UNCHANGED <<base_dir, dirs, files, tasks, walk, pre, arg>>

----------------------------------------------------------------------------
(* The trees remove_unwanted_files is run on *)

MaxUnwantedFiles == 3

UnwantedDirs == {Root, <<"d1">>, <<"d1", "d3">>}

UnwantedNames ==
    {<<"a", ".jpg">>, <<"a", ".JPG">>, <<"a", ".TXT">>, <<"a", ".gif">>,
     <<"a", ".GIF">>, <<"a", "">>}

UnwantedPaths == {P(d, n) : d \in UnwantedDirs, n \in UnwantedNames}

InitUnwanted ==
    /\ base_dir = <<"data", "ds">>
    /\ dirs = UnwantedDirs
    /\ \E S \in SUBSET UnwantedPaths :
          /\ Cardinality(S) <= MaxUnwantedFiles
          /\ files = [p \in S |-> Text(<<"n">>)]
    /\ op = "idle"
    /\ last = "none"
    /\ tasks = NoTasks
    /\ walk = << >>
    /\ pre = Snapshot
    /\ arg = NoArg

NextUnwanted ==
    \/ StartUnwanted
    \/ \E f \in UnwantedPaths : UnwantedStep(f)
    \/ FinishUnwanted

SpecUnwanted == InitUnwanted /\ [][NextUnwanted]_vars

----------------------------------------------------------------------------
(* Claims about remove_unwanted_files *)

\* C8: after remove_unwanted_files no file at any depth has a suffix that,
\* lower-cased, is outside {.jpg, .png, .txt}.
C8_NoUnwantedFileLeft ==
    Returned("unwanted") =>
        \A q \in DOMAIN files : Lower(Suffix(q)) \in {".jpg", ".png", ".txt"}

\* C8's case: a .gif two levels down and a file without suffix were removed,
\* and an upper-case .JPG was kept
C8_Witness ==
    /\ Returned("unwanted")
    /\ Exists(pre.files, P(<<"d1", "d3">>, <<"a", ".gif">>))
    /\ Exists(pre.files, P(Root, <<"a", "">>))
    /\ DOMAIN files = {P(<<"d1">>, <<"a", ".JPG">>)}

----------------------------------------------------------------------------
(* remove_empty_dirs *)

IsPrefix(a, b) == Len(a) <= Len(b) /\ SubSeq(b, 1, Len(a)) = a

\* the subdirectories scandir(top) lists
Children(ds, top) == {d \in ds : Len(d) = Len(top) + 1 /\ IsPrefix(top, d)}

\* the orders in which scandir may list a set of directories
Listings(S) ==
    {l \in [1 .. Cardinality(S) -> S] : \A i, j \in 1 .. Cardinality(S) : l[i] = l[j] => i = j}

\* os.walk(top, topdown=False) with the loop body's "for d in dirs": the
\* directories in the order the body examines them.  A directory's listing is
\* read before its subdirectories are walked, and it is handed to the body
\* after all of them.
RECURSIVE BottomUp(_, _), WalkEach(_, _, _)
WalkEach(ds, listing, i) ==
    IF i > Len(listing) THEN {<< >>}
    ELSE {a \o b : a \in BottomUp(ds, listing[i]), b \in WalkEach(ds, listing, i + 1)}

\* a slip: topdown left at its default, a directory is handed over before
\* its subdirectories
BottomUp_TopDown(ds, top) ==
    UNION {{listing \o below : below \in WalkEach(ds, listing, 1)} :
              listing \in Listings(Children(ds, top))}

BottomUp(ds, top) ==
    UNION {{below \o listing : below \in WalkEach(ds, listing, 1)} :
              listing \in Listings(Children(ds, top))}

\* a slip: only subdirectories count as entries
IsEmptyDir_NoSubdirs(ds, fs, path) == Children(ds, path) = {}

\* not any(path.iterdir())
IsEmptyDir(ds, fs, path) ==
    /\ Children(ds, path) = {}
    /\ \A f \in DOMAIN fs : f.dir # path

StartEmptyDirs ==
    /\ op = "idle"
    /\ op' = "emptydirs"
    /\ pre' = Snapshot
    /\ arg' = NoArg
    /\ walk' \in BottomUp(dirs, Root)
    /\ tasks' = NoTasks
    /\ UNCHANGED <<base_dir, dirs, files, last>>

EmptyDirStep ==
    /\ op = "emptydirs"
    /\ walk # << >>
    /\ dirs' = IF IsEmptyDir(dirs, files, Head(walk))
                 THEN dirs \ {Head(walk)}
                 ELSE dirs
    /\ walk' = Tail(walk)
    /\ UNCHANGED <<base_dir, files, op, last, tasks, pre, arg>>

FinishEmptyDirs ==
    /\ op = "emptydirs"
    /\ walk = << >>
    /\ op' = "idle"
    /\ last' = "emptydirs"
    /\ UNCHANGED <<base_dir, dirs, files, tasks, walk, pre, arg>>

----------------------------------------------------------------------------
(* The trees remove_empty_dirs is run on: below every directory a "d1" that *)
(* may have subdirectories and a "d2" that has none, down to MaxDepth       *)

MaxDepth == 3

RECURSIVE TreeDirs(_)
TreeDirs(n) ==
    IF n = 0 THEN {Root}
    ELSE LET above == TreeDirs(n - 1) IN
         above \cup {Append(d, c) :
                        d \in {e \in above : Len(e) = n - 1
                                             /\ \A i \in 1 .. Len(e) : e[i] = "d1"},
                        c \in {"d1", "d2"}}

PrefixClosed(ds) ==
    /\ Root \in ds
    /\ \A d \in ds : d # Root => SubSeq(d, 1, Len(d) - 1) \in ds

InitEmptyDirs ==
    /\ base_dir = <<"data", "ds">>
    /\ dirs \in {ds \in SUBSET TreeDirs(MaxDepth) : PrefixClosed(ds)}
    /\ \E K \in SUBSET dirs : files = [p \in {P(d, AJpg) : d \in K} |-> Text(<<"n">>)]
    /\ op = "idle"
    /\ last = "none"
    /\ tasks = NoTasks
    /\ walk = << >>
    /\ pre = Snapshot
    /\ arg = NoArg

NextEmptyDirs ==
    \/ StartEmptyDirs
    \/ EmptyDirStep
    \/ FinishEmptyDirs

SpecEmptyDirs == InitEmptyDirs /\ [][NextEmptyDirs]_vars

----------------------------------------------------------------------------
(* Claims about remove_empty_dirs *)

\* C9: after one remove_empty_dirs call no directory strictly below the root
\* is empty, the directories that held only empty subdirectories included.
C9_NoEmptyDirLeft ==
    Returned("emptydirs") =>
        \A d \in dirs \ {Root} : ~IsEmptyDir(dirs, files, d)

\* C9's case: d1 held only the subdirectories d1/d1 (itself holding only the
\* empty d1/d1/d2) and the empty d1/d2; one call removed all of them and kept
\* d2, which holds a file
C9_Witness ==
    /\ Returned("emptydirs")
    /\ pre.dirs = {Root, <<"d1">>, <<"d2">>, <<"d1", "d1">>, <<"d1", "d2">>,
                   <<"d1", "d1", "d2">>}
    /\ DOMAIN files = {P(<<"d2">>, AJpg)}
    /\ dirs = {Root, <<"d2">>}

----------------------------------------------------------------------------
(* create_yaml.  An absolute path is written as its sequence of components, *)
(* so str(base_dir / "images/train") is base_dir \o <<"images", "train">>.  *)

YamlPath == P(Root, <<"dataset", ".yaml">>)

\* class_names or []
NamesOf(class_names) ==
    IF class_names.kind = "none" THEN << >> ELSE class_names.names

Data(base, class_names) ==
    [train |-> base \o <<"images", "train">>,
     val   |-> base \o <<"images", "val">>,
     nc    |-> Len(NamesOf(class_names)),
     names |-> NamesOf(class_names)]

\* a slip: the file is opened for appending
Opened_Append(old) == old

\* yaml_path.open("w"): the documents of the file once opened (truncated)
Opened(old) == << >>

CreateYamlOpen(class_names) ==
    /\ op = "idle"
    /\ op' = "yaml"
    /\ pre' = Snapshot
    /\ arg' = class_names
    /\ LET old == IF Exists(files, YamlPath) THEN files[YamlPath].docs ELSE << >> IN
         files' = [q \in DOMAIN files \cup {YamlPath} |->
                     IF q = YamlPath THEN [text |-> << >>, docs |-> Opened(old)]
                     ELSE files[q]]
    /\ UNCHANGED <<base_dir, dirs, last, tasks, walk>>

\* yaml.safe_dump(data, f, sort_keys=False), then the file is closed
CreateYamlDump ==
    /\ op = "yaml"
    /\ files' = [files EXCEPT ![YamlPath].docs = Append(@, Data(base_dir, arg))]
    /\ op' = "idle"
    /\ last' = "yaml"
    /\ UNCHANGED <<base_dir, dirs, tasks, walk, pre, arg>>

----------------------------------------------------------------------------
(* The calls of create_yaml *)

MaxClasses == 2

ClassNames == {"cat", "dog"}

RECURSIVE NameLists(_)
NameLists(n) ==
    IF n = 0 THEN {<< >>}
    ELSE LET shorter == NameLists(n - 1) IN
         shorter \cup {Append(l, c) : l \in {m \in shorter : Len(m) = n - 1}, c \in ClassNames}

\* None (also the omitted argument) or a list of class names
ClassArgs == {NoArg} \cup {[kind |-> "names", names |-> l] : l \in NameLists(MaxClasses)}

\* a manifest some other tool left at the root
ForeignDoc ==
    [train |-> <<"old", "train">>, val |-> <<"old", "val">>, nc |-> 80,
     names |-> <<"person">>]

InitYaml ==
    /\ base_dir \in {<<"data", "ds">>, <<"ds">>}
    /\ dirs = {Root}
    /\ \E M \in SUBSET {YamlPath} :
          files = [p \in M \cup {P(Root, AJpg)} |->
                      IF p = YamlPath THEN [text |-> << >>, docs |-> <<ForeignDoc>>]
                      ELSE Text(<<"n">>)]
    /\ op = "idle"
    /\ last = "none"
    /\ tasks = NoTasks
    /\ walk = << >>
    /\ pre = Snapshot
    /\ arg = NoArg

NextYaml ==
    \/ \E c \in ClassArgs : CreateYamlOpen(c)
    \/ CreateYamlDump

SpecYaml == InitYaml /\ [][NextYaml]_vars

----------------------------------------------------------------------------
(* Claims about create_yaml *)

\* C10: after any sequence of create_yaml calls the manifest at the root is
\* the one document of the last call: train = <root>/images/train,
\* val = <root>/images/val, names = that call's class names in order (empty
\* for None), nc = their number; nothing of an earlier manifest remains.
C10_ManifestIsLastCall ==
    Returned("yaml") =>
        /\ Exists(files, YamlPath)
        /\ Len(files[YamlPath].docs) = 1
        /\ LET doc == files[YamlPath].docs[1]
               given == IF arg = NoArg THEN << >> ELSE arg.names
           IN /\ doc.train = base_dir \o <<"images", "train">>
              /\ doc.val = base_dir \o <<"images", "val">>
              /\ doc.names = given
              /\ doc.nc = Len(given)

\* C10's case: create_yaml(["cat", "dog"]) has replaced the manifest an
\* earlier create_yaml(["dog"]) had written
C10_Witness ==
    /\ Returned("yaml")
    /\ Exists(pre.files, YamlPath)
    /\ pre.files[YamlPath].docs[1].names = <<"dog">>
    /\ arg = [kind |-> "names", names |-> <<"cat", "dog">>]
    /\ files[YamlPath].docs[1].nc = 2
    /\ files[YamlPath].docs[1].train = <<"data", "ds", "images", "train">>

----------------------------------------------------------------------------
(* Further claims about split_dataset *)

\* the destinations the task of src may get, over all draws
SplitDsts(src) == {SplitDst(src, draw, arg.ratio) : draw \in Draws}

\* C13: within one split_dataset call no two tasks can have the same
\* destination and no task's destination is the source of another task,
\* whatever the draws; and any two pending tasks commute: moving one and then
\* the other gives the same directory contents as the other order.
C13_SplitTasksIndependent ==
    (op = "split") =>
        /\ \A p, q \in DOMAIN tasks :
              p # q => /\ SplitDsts(p) \cap SplitDsts(q) = {}
                       /\ SplitDsts(p) \cap DOMAIN tasks = {}
        /\ \A p, q \in DOMAIN tasks :
              (p # q /\ tasks[p] = "move" /\ tasks[q] = "move") =>
                  \A dp \in SplitDsts(p), dq \in SplitDsts(q) :
                      /\ ~MoveRaises(ShutilMove(files, p, dp), q, dq)
                      /\ ShutilMove(ShutilMove(files, p, dp), q, dq)
                            = ShutilMove(ShutilMove(files, q, dq), p, dp)

\* C13's case: three tasks are dispatched, one already moved onto the file an
\* earlier split had left, two still pending
C13_Witness ==
    /\ op = "split"
    /\ Cardinality(DOMAIN tasks) = 3
    /\ Exists(pre.files, P(<<"images", "val">>, AJpg))
    /\ P(Root, AJpg) \in DOMAIN tasks
    /\ tasks[P(Root, AJpg)] = "done"
    /\ LandedIn(P(Root, AJpg)) = {<<"images", "val">>}
    /\ Cardinality({p \in DOMAIN tasks : tasks[p] = "move"}) = 2

----------------------------------------------------------------------------
(* Further claims about remove_unwanted_files *)

\* the suffixes of the model that are .jpg, .png or .txt in some case
KeptSuffixes == {".jpg", ".JPG", ".png", ".Png", ".txt", ".TXT"}

\* C15: remove_unwanted_files deletes only files whose lower-cased suffix is
\* outside {.jpg, .png, .txt}: during and after the call every file whose
\* suffix is in that set in any case is in place with its content, every
\* directory is in place, and no file was added or changed.
C15_OnlyUnwantedDeleted ==
    (op = "unwanted" \/ Returned("unwanted")) =>
        /\ \A p \in DOMAIN pre.files :
              Suffix(p) \in KeptSuffixes => Exists(files, p) /\ files[p] = pre.files[p]
        /\ \A q \in DOMAIN files : Exists(pre.files, q) /\ files[q] = pre.files[q]
        /\ dirs = pre.dirs

\* C15's case: the sweep removed a .GIF and kept an upper-case .JPG and .TXT
C15_Witness ==
    /\ Returned("unwanted")
    /\ Exists(pre.files, P(<<"d1">>, <<"a", ".GIF">>))
    /\ DOMAIN files = {P(<<"d1">>, <<"a", ".JPG">>), P(<<"d1", "d3">>, <<"a", ".TXT">>)}

----------------------------------------------------------------------------
(* Further claims about flatten_all_files *)

\* C16: flatten_all_files leaves unchanged every file that is directly under
\* the root and whose name no file of a subdirectory has, .jpg included.
C16_RootFilesUntouched ==
    Returned("flatten") =>
        \A p \in DOMAIN pre.files :
            (/\ p.dir = Root
             /\ \A q \in DOMAIN pre.files : q.name = p.name => q = p) =>
                Exists(files, p) /\ files[p] = pre.files[p]

----------------------------------------------------------------------------
(* Further claims about remove_empty_dirs *)

\* C17: remove_empty_dirs never removes the root, never deletes or changes a
\* file, removes a directory only when it is empty at that moment, and so
\* never one that holds a file or a subdirectory that stays.
C17_OnlyEmptyDirsRemoved ==
    [][(op = "emptydirs") =>
          /\ files' = files
          /\ Root \in dirs'
          /\ dirs' \subseteq dirs
          /\ \A d \in dirs \ dirs' :
                /\ d = Head(walk)
                /\ \A f \in DOMAIN files : f.dir # d
                /\ \A c \in dirs : ~(c # d /\ IsPrefix(d, c))]_vars

\* C17's case: the root holds nothing but an empty directory; the call
\* removed that directory and kept the root, now empty itself
C17_Witness ==
    /\ Returned("emptydirs")
    /\ pre.dirs = {Root, <<"d2">>}
    /\ files = NoTasks
    /\ dirs = {Root}

----------------------------------------------------------------------------
(* remove_empty_dirs when a directory cannot be listed or removed (a        *)
(* permission error, or another process changed it).  tasks records the     *)
(* directories the call failed on.                                          *)

Failed(ts, d) == [e \in DOMAIN ts \cup {d} |-> "failed"]

\* path.rmdir() raises: caught by the except clause, the loop goes on
EmptyDirRmdirRaises ==
    /\ op = "emptydirs"
    /\ walk # << >>
    /\ IsEmptyDir(dirs, files, Head(walk))
    /\ tasks' = Failed(tasks, Head(walk))
    /\ walk' = Tail(walk)
    /\ UNCHANGED <<base_dir, dirs, files, op, last, pre, arg>>

\* path.iterdir() raises: the test is outside the try block, the exception
\* leaves remove_empty_dirs and the walk is abandoned
EmptyDirListRaises ==
    /\ op = "emptydirs"
    /\ walk # << >>
    /\ tasks' = Failed(tasks, Head(walk))
    /\ walk' = << >>
    /\ op' = "idle"
    /\ last' = "raised"
    /\ UNCHANGED <<base_dir, dirs, files, pre, arg>>

NextEmptyDirsFaults ==
    \/ NextEmptyDirs
    \/ EmptyDirRmdirRaises
    \/ EmptyDirListRaises

SpecEmptyDirsFaults == InitEmptyDirs /\ [][NextEmptyDirsFaults]_vars

\* C12: in remove_empty_dirs a failure on one directory (listing or removing
\* it) is caught for that directory only: the call does not raise, and when
\* it returns every empty directory it did not fail on has been removed.
C12_DirFailureIsolated ==
    /\ last # "raised"
    /\ Returned("emptydirs") =>
          \A d \in dirs \ {Root} :
              IsEmptyDir(dirs, files, d) => d \in DOMAIN tasks

----------------------------------------------------------------------------
(* flatten_all_files followed by remove_empty_dirs *)

NextFlattenClean ==
    \/ (last = "none" /\ StartFlatten)
    \/ \E src \in FlatPaths : MoveCheck(src)
    \/ \E src \in FlatPaths : MoveUnlink(src)
    \/ \E src \in FlatPaths : MoveMove(src)
    \/ FinishFlatten
    \/ (last = "flatten" /\ StartEmptyDirs)
    \/ EmptyDirStep
    \/ FinishEmptyDirs

SpecFlattenClean == InitFlatten /\ [][NextFlattenClean]_vars

\* C18: after flatten_all_files and then remove_empty_dirs the root has no
\* subdirectory at all and every file is directly under the root.
C18_FlattenCleanLeavesNoSubdir ==
    Returned("emptydirs") =>
        /\ dirs = {Root}
        /\ \A f \in DOMAIN files : f.dir = Root

----------------------------------------------------------------------------
(* The bulk operations when the task of a file fails with an I/O error      *)
(* (permission denied, read-only file system): the exception is caught in   *)
(* the task and printed.                                                    *)

\* dst_path.unlink() or shutil.move raises in _move_file_safely
FlattenTaskRaises(src) ==
    /\ op = "flatten"
    /\ src \in DOMAIN tasks
    /\ tasks[src] \in {"unlink", "move"}
    /\ tasks' = [tasks EXCEPT ![src] = "failed"]
    /\ UNCHANGED <<base_dir, dirs, files, op, last, walk, pre, arg>>

\* shutil.move raises in _assign_to_split_folder
SplitTaskRaises(src) ==
    /\ op = "split"
    /\ src \in DOMAIN tasks
    /\ tasks[src] = "move"
    /\ tasks' = [tasks EXCEPT ![src] = "failed"]
    /\ UNCHANGED <<base_dir, dirs, files, op, last, walk, pre, arg>>

\* file_path.open raises in _reset_label_classes
LabelTaskRaises(file_path) ==
    /\ op = "labels"
    /\ file_path \in DOMAIN tasks
    /\ tasks[file_path] = "todo"
    /\ tasks' = [tasks EXCEPT ![file_path] = "failed"]
    /\ UNCHANGED <<base_dir, dirs, files, op, last, walk, pre, arg>>

NextBulkFaults ==
    \/ StartFlatten
    \/ \E src \in DOMAIN tasks : MoveCheck(src)
    \/ \E src \in DOMAIN tasks : MoveUnlink(src)
    \/ \E src \in DOMAIN tasks : MoveMove(src)
    \/ \E src \in DOMAIN tasks : FlattenTaskRaises(src)
    \/ FinishFlatten
    \/ \E r \in Ratios : StartSplit(r)
    \/ \E src \in DOMAIN tasks, draw \in Draws : AssignToSplitFolder(src, draw)
    \/ \E src \in DOMAIN tasks : SplitTaskRaises(src)
    \/ FinishSplit
    \/ StartLabels
    \/ \E p \in DOMAIN tasks : ResetLabelClasses(p)
    \/ \E p \in DOMAIN tasks : LabelTaskRaises(p)
    \/ FinishLabels

SpecBulkFaults == InitFlatten /\ [][NextBulkFaults]_vars

FailedTasks == {p \in DOMAIN tasks : tasks[p] = "failed"}

\* the failing file is left as it was
LeftUnprocessed(f) == Exists(files, f) /\ files[f] = pre.files[f]

\* flatten_all_files with one failed task: every other file is directly under
\* the root and no longer in its subdirectory
FlattenFaultIsolated ==
    (Returned("flatten") /\ Cardinality(FailedTasks) = 1) =>
        \A f \in FailedTasks :
            /\ LeftUnprocessed(f)
            /\ \A p \in DOMAIN tasks \ {f} :
                  /\ Exists(files, FlattenDst(p))
                  /\ p.dir # Root => ~Exists(files, p)

\* split_dataset with one failed task: every other file is in a split
\* directory and no longer under the root
SplitFaultIsolated ==
    (Returned("split") /\ Cardinality(FailedTasks) = 1) =>
        \A f \in FailedTasks :
            /\ LeftUnprocessed(f)
            /\ \A p \in DOMAIN tasks \ {f} :
                  /\ ~Exists(files, p)
                  /\ \E d \in SplitLeaves :
                        Exists(files, P(d, p.name)) /\ files[P(d, p.name)] = pre.files[p]

\* update_all_labels with one failed task: every line of every other label
\* file starts with the token 0
LabelsFaultIsolated ==
    (Returned("labels") /\ Cardinality(FailedTasks) = 1) =>
        \A f \in FailedTasks :
            /\ LeftUnprocessed(f)
            /\ \A p \in DOMAIN tasks \ {f} :
                  /\ Exists(files, p)
                  /\ LET out == ReadLines(files[p].text) IN
                       \A i \in 1 .. Len(out) : Head(Split(out[i])) = <<"0">>

\* C11: in each bulk operation, when the task of one file fails, the
\* operation still applies its effect to every other file and returns; the
\* failing file is the only one left unprocessed.
C11_TaskFailureIsolated ==
    /\ FlattenFaultIsolated
    /\ SplitFaultIsolated
    /\ LabelsFaultIsolated

----------------------------------------------------------------------------
(* All the operations, called one after another in any order on one tree    *)

MaxPipeFiles == 2

PipePaths ==
    {P(Root, AJpg), P(<<"d1">>, AJpg), P(Root, <<"a", ".txt">>),
     P(<<"d1">>, <<"a", ".txt">>), P(<<"d1">>, <<"a", ".gif">>),
     P(<<"d1">>, YamlPath.name)}

PipeClassArgs == {NoArg, [kind |-> "names", names |-> <<"cat", "dog">>]}

InitPipeline ==
    /\ base_dir = <<"data", "ds">>
    /\ dirs = {Root, <<"d1">>}
    /\ \E S \in SUBSET PipePaths :
          /\ Cardinality(S) <= MaxPipeFiles
          /\ files = [p \in S |-> Text(<<"7", " ", "7">>)]
    /\ op = "idle"
    /\ last = "none"
    /\ tasks = NoTasks
    /\ walk = << >>
    /\ pre = Snapshot
    /\ arg = NoArg

NextPipeline ==
    \/ StartFlatten
    \/ \E src \in DOMAIN tasks : MoveCheck(src)
    \/ \E src \in DOMAIN tasks : MoveUnlink(src)
    \/ \E src \in DOMAIN tasks : MoveMove(src)
    \/ FinishFlatten
    \/ \E r \in Ratios : StartSplit(r)
    \/ \E src \in DOMAIN tasks, draw \in Draws : AssignToSplitFolder(src, draw)
    \/ FinishSplit
    \/ StartLabels
    \/ \E p \in DOMAIN tasks : ResetLabelClasses(p)
    \/ FinishLabels
    \/ StartUnwanted
    \/ \E f \in DOMAIN tasks : UnwantedStep(f)
    \/ FinishUnwanted
    \/ StartEmptyDirs
    \/ EmptyDirStep
    \/ FinishEmptyDirs
    \/ \E c \in PipeClassArgs : CreateYamlOpen(c)
    \/ CreateYamlDump

SpecPipeline == InitPipeline /\ [][NextPipeline]_vars

BulkOps == {"flatten", "split", "labels"}

\* C14: once flatten_all_files, split_dataset or update_all_labels has
\* returned, every task it dispatched has finished, as done or as failed:
\* none is pending or running, so none overlaps the next stage.
C14_ReturnsAfterAllTasks ==
    (op = "idle" /\ last \in BulkOps) =>
        \A p \in DOMAIN tasks : tasks[p] \in {"done", "failed"}

\* flatten_all_files has returned with one task done and one task failed
C14_Witness ==
    /\ Returned("flatten")
    /\ \E p, q \in DOMAIN tasks : tasks[p] = "done" /\ tasks[q] = "failed"

HadManifest == Exists(pre.files, YamlPath)

ManifestUnchanged ==
    Exists(files, YamlPath) /\ files[YamlPath] = pre.files[YamlPath]

\* C19 as stated: each of the five other operations, started with the manifest
\* at the root, leaves it present there with the content it had.
C19_ManifestSurvivesOthers ==
    \A o \in {"flatten", "unwanted", "emptydirs", "split", "labels"} :
        ((op = o \/ Returned(o)) /\ HadManifest) => ManifestUnchanged

\* C19, amended: split_dataset, update_all_labels and remove_empty_dirs leave
\* the manifest present and unchanged; flatten_all_files leaves a manifest
\* present at the root; remove_unwanted_files, once returned, has deleted it.
C19_ManifestAmended ==
    /\ \A o \in {"split", "labels", "emptydirs"} :
          ((op = o \/ Returned(o)) /\ HadManifest) => ManifestUnchanged
    /\ ((op = "flatten" \/ Returned("flatten")) /\ HadManifest) =>
          Exists(files, YamlPath)
    /\ (Returned("unwanted") /\ HadManifest) => ~Exists(files, YamlPath)

\* remove_unwanted_files has returned: the manifest create_yaml had written
\* for ["cat", "dog"] is gone, and the .jpg file at the root is kept
C19_Witness ==
    /\ Returned("unwanted")
    /\ HadManifest
    /\ pre.files[YamlPath].docs =
           <<Data(base_dir, [kind |-> "names", names |-> <<"cat", "dog">>])>>
    /\ ~Exists(files, YamlPath)
    /\ Exists(files, P(Root, AJpg))

====
